---- MODULE Spec2Model ----
(***************************************************************************)
(* BookWriter (src/bookwriter/core.py): the page-by-page writing engine,   *)
(* its project memory, the manuscript file and write_full_book().          *)
(*                                                                         *)
(* Texts are modelled by what the code looks at: a generated text is       *)
(* prose ("ok"), a text containing the marker "Error" ("error"), or a      *)
(* blank text ("empty"); the manuscript is the sequence of the blocks the  *)
(* code appends (chapter headings and pages).                              *)
(***************************************************************************)
EXTENDS Integers, Sequences, FiniteSets, TLC

\* ------------------------------------------------------------------ bounds
MaxChapters == 2      \* chapters in a generated outline
MaxPages    == 2      \* pages_estimate of a chapter
MaxFaults   == 1      \* exceptions raised over one behaviour
MaxEmpties  == 1      \* blank generations inside one write_full_book()
MaxStates   == 1      \* distinct new character-state texts the model may return
MaxRewrite  == 2      \* manuscript length up to which a response may reset
                      \* the cursor or the summaries

\* ------------------------------------------------------------- vocabulary
Chars == {"ana", "beto"}           \* character names of a generated outline

\* get_status() reports the string "N/A" as the chapter number of a
\* completed book; arithmetic on it raises TypeError.
NA == -1

VARIABLES
    memory,      \* self.memory (the fields the writing engine reads/writes)
    disk,        \* memory.json on disk
    book,        \* book.md, the manuscript
    semantic,    \* self.semantic_memory (its availability flag)
    wfb,         \* the write_full_book() generator and what it has done
    faults,      \* exceptions raised so far (bounded by MaxFaults)
    last,        \* what the last operation did and returned
    groq,        \* one _call_groq() invocation: its loop and what it did
    og,          \* one OutlineGenerator.generate() call: inputs and result
    cmem,     \* self.memory: premise, themes, outline, blurb, cover_prompt
    cdisk,       \* memory.json for those fields
    clast,       \* the last operation on them and its result
    chunker,     \* one SemanticMemory._chunk_text() call: inputs and result
    store,       \* a SemanticMemory: is_available, index, text_chunks
    sfiles,      \* semantic_index.faiss and text_chunks.json
    slast,       \* the last operation on the semantic memory
    cu,          \* one _update_character_states() call: inputs and result
    shared,      \* the active project two UI handlers share: memory, book.md
    threads      \* where each handler's generate_page() is, and its locals

BookVars == <<memory, disk, book, semantic, wfb, faults, last>>
AuxVars == <<groq, og, cmem, cdisk, clast, chunker, store, sfiles, slast,
            cu, shared, threads>>
ThreadVars == <<shared, threads>>
StoreVars == <<store, sfiles, slast>>
ContentVars == <<cmem, cdisk, clast>>
vars == <<memory, disk, book, semantic, wfb, faults, last, groq, og,
          cmem, cdisk, clast, chunker, store, sfiles, slast, cu,
          shared, threads>>

\* ------------------------------------------------------------ pure helpers
RECURSIVE SumPages(_, _)
\* sum(outline[i].get('pages_estimate', 10) for i in range(n))
SumPages(outline, n) ==
    IF n <= 0 THEN 0
    ELSE outline[n].pages_estimate + SumPages(outline, n - 1)

\* the text contains the substring "Error"
ContainsError(text) == text = "error"

\* not text.strip()
IsBlank(text) == text = "empty"

Heading(n) == [kind |-> "H", ch |-> n, pg |-> 0]
Page(n, p) == [kind |-> "P", ch |-> n, pg |-> p]

\* _get_initial_memory
InitialMemory ==
    [ plot_outline     |-> <<>>,
      characters       |-> [c \in {} |-> 0],
      chapters_summary |-> <<>>,
      writing_progress |-> [current_chapter_index |-> 0,
                            current_page_in_chapter |-> 0] ]

NoLast ==
    [ op |-> "init", gp |-> FALSE, status |-> "none", text |-> "",
      gen |-> "none", genCalls |-> 0, semSearch |-> FALSE, semAdd |-> FALSE,
      semFailed |-> FALSE, addText |-> <<>>, appended |-> FALSE,
      wasLast |-> FALSE, advanced |-> FALSE, raised |-> FALSE ]

IdleWfb ==
    [ pc |-> "idle", startKind |-> "none", startRemaining |-> 0,
      calls |-> 0, pageYields |-> 0, errYields |-> 0, finalYields |-> 0,
      pages_written |-> 0, total_pages |-> 0, empties |-> 0, clean |-> TRUE ]

\* ------------------------------------------------------------ get_status
\* get_status(): the keys write_full_book() reads. Without an outline the
\* result is {"message": ...} and has none of them (hasKeys = FALSE).
GetStatus(mem) ==
    LET outline      == mem.plot_outline
        current_idx  == mem.writing_progress.current_chapter_index
        is_completed == current_idx >= Len(outline)
    IN  IF Len(outline) = 0
        THEN [hasKeys |-> FALSE, completed |-> FALSE,
              current_chapter_number |-> 0, current_page |-> 0]
        ELSE IF is_completed
        THEN [hasKeys |-> TRUE, completed |-> TRUE,
              current_chapter_number |-> NA, current_page |-> 0]
        ELSE [hasKeys |-> TRUE, completed |-> FALSE,
              current_chapter_number |-> outline[current_idx + 1].number,
              current_page |->
                  mem.writing_progress.current_page_in_chapter + 1]

\* ------------------------------------------------------ character updater
\* _parse_update_response that takes the error marker for an answer
Mut_ParseUpdateResponse(upd) ==
    [none |-> upd.kind = "unparsable", vals |-> upd.vals]

\* _parse_update_response: None for a text that json.loads rejects (an
\* error marker is such a text), the mapping otherwise.
ParseUpdateResponse(upd) ==
    IF upd.kind \in {"error", "unparsable"}
    THEN [none |-> TRUE, vals |-> upd.vals]
    ELSE [none |-> FALSE, vals |-> upd.vals]

\* `not updates`: None or an empty mapping
UpdatesFalsy(parsed) ==
    parsed.none \/ \A c \in DOMAIN parsed.vals : parsed.vals[c].type = "missing"

\* _validate_updates: updates[name].strip() raises AttributeError when the
\* value is not a string; a state of at most 5 characters keeps the old one.
ValidateUpdates(vals, expected_names, current_states) ==
    IF \E c \in expected_names : vals[c].type = "nonstr"
    THEN [raised |-> TRUE, states |-> current_states]
    ELSE [raised |-> FALSE,
          states |-> [c \in expected_names |->
                        IF vals[c].type = "str" THEN vals[c].state
                        ELSE current_states[c]]]

\* update_after_chapter
UpdateAfterChapter(upd, character_names, current_states) ==
    LET parsed == ParseUpdateResponse(upd)
    IN  IF character_names = {} THEN [raised |-> FALSE, states |-> current_states]
        ELSE IF UpdatesFalsy(parsed)
        THEN [raised |-> FALSE, states |-> current_states]
        ELSE ValidateUpdates(parsed.vals, character_names, current_states)

\* _update_character_states: the new characters mapping, or the exception
UpdateCharacterStates(mem, upd) ==
    LET character_names == DOMAIN mem.characters
    IN  IF character_names = {}
        THEN [raised |-> FALSE, states |-> mem.characters]
        ELSE UpdateAfterChapter(upd, character_names, mem.characters)

\* ------------------------------------------------------------- manuscript
\* _append_page_to_book: the heading goes before page 1 of the chapter
AppendPageToBook(bk, chapter_info, page_number) ==
    IF page_number = 1
    THEN bk \o <<Heading(chapter_info.number),
                 Page(chapter_info.number, page_number)>>
    ELSE Append(bk, Page(chapter_info.number, page_number))

\* str.rfind(chapter_header): index of the last heading of chapter n, 0 if none
RFindHeading(bk, n) ==
    LET hits == {i \in 1..Len(bk) : bk[i] = Heading(n)}
    IN  IF hits = {} THEN 0 ELSE CHOOSE i \in hits : \A j \in hits : j <= i

\* next_chap_header.search(full_book_content, start_index)
SearchHeading(bk, n, start) ==
    LET hits == {i \in start..Len(bk) : bk[i] = Heading(n)}
    IN  IF hits = {} THEN 0 ELSE CHOOSE i \in hits : \A j \in hits : i <= j

\* _process_completed_chapter, lines 503-517: the text handed to
\* add_chapter, from the last heading of the chapter to the next chapter's
\* heading or the end; <<>> when the heading is not found (no call is made)
ChapterText(bk, chapter_info) ==
    LET start_index == RFindHeading(bk, chapter_info.number)
        match       == SearchHeading(bk, chapter_info.number + 1, start_index)
    IN  IF start_index = 0 THEN <<>>
        ELSE IF match # 0 THEN SubSeq(bk, start_index, match - 1)
        ELSE SubSeq(bk, start_index, Len(bk))

\* _process_completed_chapter, lines 501-523: whether add_chapter is called
\* and returns. The heading may be missing (no call), and every exception
\* raised inside (semOK = FALSE) is caught and logged; add_chapter itself
\* returns at once when the embedding backend is not available.
AddChapterCalled(bk, chapter_info) == ChapterText(bk, chapter_info) # <<>>

AddChapterFailed(sem, bk, chapter_info, semOK) ==
    AddChapterCalled(bk, chapter_info) /\ sem.is_available /\ ~semOK

\* ----------------------------------------------------------------- memory
\* AdvanceChapter that forgets to reset the page counter
Mut_AdvanceChapter_NoReset(mem, chapter_info) ==
    [mem EXCEPT
        !.chapters_summary = Append(@, chapter_info.number),
        !.writing_progress.current_chapter_index = @ + 1]

\* AdvanceChapter that forgets the chapters_summary entry
Mut_AdvanceChapter_NoSummary(mem, chapter_info) ==
    [mem EXCEPT
        !.writing_progress =
            [current_chapter_index   |-> @.current_chapter_index + 1,
             current_page_in_chapter |-> 0]]

\* _complete_chapter, lines 482-492: summary entry, then the cursor moves on
AdvanceChapter(mem, chapter_info) ==
    [mem EXCEPT
        !.chapters_summary = Append(@, chapter_info.number),
        !.writing_progress =
            [current_chapter_index   |-> @.current_chapter_index + 1,
             current_page_in_chapter |-> 0]]

\* generate_page, line 416
SetPageInChapter(mem, page_in_chapter) ==
    [mem EXCEPT !.writing_progress.current_page_in_chapter = page_in_chapter]

\* save_memory: open(..., 'w') truncates memory.json before json.dump
\* writes it; a failure leaves the old file (open failed) or a truncated one
SaveMemory(mem, dk, save) ==
    CASE save = "ok"           -> [state |-> "ok", doc |-> mem]
      [] save = "fail_open"    -> dk
      [] save = "fail_write"   -> [state |-> "corrupt", doc |-> InitialMemory]

\* load_memory over a fresh initial memory (BookWriter.__init__)
LoadMemory(dk) ==
    IF dk.state = "ok" THEN dk.doc ELSE InitialMemory

\* ---------------------------------------------------------- generate_page
\* generate_page, line 359
IsBookComplete(mem) ==
    \/ mem.plot_outline = <<>>
    \/ mem.writing_progress.current_chapter_index >= Len(mem.plot_outline)

\* PageGenerateSuccess that only rejects a blank text
Mut_PageGenerateSuccess(content) == ~IsBlank(content)

\* PageGenerator.generate, line 74: (success, content)
PageGenerateSuccess(content) ==
    ~(ContainsError(content) \/ IsBlank(content))

\* generate_page, line 413
IsLastPage(page_in_chapter, total_pages) == page_in_chapter >= total_pages

\* CompletedResult of a generate_page() that assembles the context (and
\* searches the semantic memory) before it tests for completion
Mut_CompletedResult(unchanged) ==
    [unchanged EXCEPT !.status = "completed", !.semSearch = TRUE]

\* generate_page, lines 359-361: nothing is done and ("completed", "") is
\* returned
CompletedResult(unchanged) == [unchanged EXCEPT !.status = "completed"]

\* What one generate_page() call leaves behind and returns, from memory
\* mem, manuscript bk, memory.json dk and semantic memory sem. The input
\* `in` fixes what the environment does during the call: in.gen the text
\* of the page generation, in.appendFails a failing open() of book.md,
\* in.semOK the indexing, in.upd the character-update response, in.save
\* the outcome of save_memory.
GeneratePageOp(mem, bk, dk, sem, in) ==
    LET outline               == mem.plot_outline
        current_chapter_index == mem.writing_progress.current_chapter_index
        unchanged ==
            [mem |-> mem, book |-> bk, disk |-> dk, sem |-> sem,
             status |-> "none", text |-> "", raised |-> FALSE,
             gen |-> "none", genCalls |-> 0, semSearch |-> FALSE,
             semAdd |-> FALSE, semFailed |-> FALSE, addText |-> <<>>,
             appended |-> FALSE, wasLast |-> FALSE, advanced |-> FALSE]
    IN
    IF IsBookComplete(mem)
    THEN CompletedResult(unchanged)
    ELSE
    LET chapter_info    == outline[current_chapter_index + 1]
        page_in_chapter == mem.writing_progress.current_page_in_chapter + 1
        total_pages     == chapter_info.pages_estimate
        called == [unchanged EXCEPT !.gen = in.gen, !.genCalls = 1,
                                    !.semSearch = TRUE]
    IN
    IF ~PageGenerateSuccess(in.gen)
    THEN [called EXCEPT !.status = in.gen]
    ELSE IF in.appendFails
    THEN [called EXCEPT !.raised = TRUE]
    ELSE
    LET bk1      == AppendPageToBook(bk, chapter_info, page_in_chapter)
        appended == [called EXCEPT !.book = bk1, !.appended = TRUE,
                        !.wasLast = IsLastPage(page_in_chapter, total_pages)]
    IN
    IF IsLastPage(page_in_chapter, total_pages)
    THEN
        LET upd  == UpdateCharacterStates(mem, in.upd)
            mem1 == AdvanceChapter([mem EXCEPT !.characters = upd.states],
                                   chapter_info)
            text == ChapterText(bk1, chapter_info)
            indexed == [appended EXCEPT
                           !.semAdd = AddChapterCalled(bk1, chapter_info),
                           !.addText = text,
                           !.semFailed = AddChapterFailed(sem, bk1,
                                             chapter_info, in.semOK)]
        IN  IF upd.raised
            THEN [indexed EXCEPT !.raised = TRUE]
            ELSE IF in.save # "ok"
            THEN [indexed EXCEPT !.mem = mem1, !.advanced = TRUE,
                     !.disk = SaveMemory(mem1, dk, in.save), !.raised = TRUE]
            ELSE [indexed EXCEPT !.mem = mem1, !.advanced = TRUE,
                     !.disk = SaveMemory(mem1, dk, in.save),
                     !.status = "ok", !.text = "content"]
    ELSE
        LET mem1 == SetPageInChapter(mem, page_in_chapter)
        IN  IF in.save # "ok"
            THEN [appended EXCEPT !.mem = mem1,
                     !.disk = SaveMemory(mem1, dk, in.save), !.raised = TRUE]
            ELSE [appended EXCEPT !.mem = mem1,
                     !.disk = SaveMemory(mem1, dk, in.save),
                     !.status = "ok", !.text = "content"]

\* ------------------------------------------------------------- the inputs
GenTexts == {"ok", "error", "empty"}
SaveOutcomes == {"ok", "fail_open", "fail_write"}

\* What the response holds for one character: "missing" (the name is not in
\* the mapping, or its text has at most 5 characters: both keep the current
\* state), "str" (a new state text) or "nonstr" (a value that is no string)
UpdValues ==
    {[type |-> t, state |-> 0] : t \in {"missing", "nonstr"}}
        \cup {[type |-> "str", state |-> s] : s \in 1..MaxStates}

NoUpd == [kind |-> "unparsable",
          vals |-> [c \in Chars |-> [type |-> "missing", state |-> 0]]]

UpdResponses ==
    {NoUpd, [NoUpd EXCEPT !.kind = "error"]}
        \cup {[kind |-> "dict", vals |-> v] : v \in [Chars -> UpdValues]}

\* The environment's choices that generate_page() can observe: nothing
\* before an outline or after the last chapter; the indexing (when the
\* semantic memory is available) and the character update only on the last
\* page of a chapter; save_memory only when the character update returned.
GPInputs(mem, sem) ==
    LET quiet == [gen |-> "ok", appendFails |-> FALSE, semOK |-> TRUE,
                  upd |-> NoUpd, save |-> "ok"]
    IN  IF IsBookComplete(mem) THEN {quiet}
        ELSE
        LET chapter_info == mem.plot_outline[
                mem.writing_progress.current_chapter_index + 1]
            lastPage == IsLastPage(
                mem.writing_progress.current_page_in_chapter + 1,
                chapter_info.pages_estimate)
            raises(u) == UpdateCharacterStates(mem, u).raised
        IN  {[quiet EXCEPT !.gen = g] : g \in {"error", "empty"}}
            \cup {[quiet EXCEPT !.appendFails = TRUE]}
            \cup {in \in {[quiet EXCEPT !.semOK = so, !.upd = u, !.save = sv] :
                            so \in (IF lastPage /\ sem.is_available
                                    THEN BOOLEAN ELSE {TRUE}),
                            u  \in (IF lastPage THEN UpdResponses ELSE {NoUpd}),
                            sv \in SaveOutcomes} :
                      ~(lastPage /\ in.save # "ok" /\ raises(in.upd))}

\* the exceptions of one call: one that propagates, or one that
\* _process_completed_chapter catches
FaultsOf(r) ==
    (IF r.raised THEN 1 ELSE 0) + (IF r.semFailed THEN 1 ELSE 0)

LastOf(op, r) ==
    [ op |-> op, gp |-> TRUE, status |-> r.status, text |-> r.text,
      gen |-> r.gen, genCalls |-> r.genCalls, semSearch |-> r.semSearch,
      semAdd |-> r.semAdd, semFailed |-> r.semFailed, addText |-> r.addText,
      appended |-> r.appended, wasLast |-> r.wasLast,
      advanced |-> r.advanced, raised |-> r.raised ]

\* ------------------------------------------------------------- _call_groq
max_retries == 5

\* waits (seconds) a rate-limit message may suggest
MaxWait == 2

\* 2 ** attempt
RECURSIVE Pow2(_)
Pow2(n) == IF n <= 0 THEN 1 ELSE 2 * Pow2(n - 1)

\* What one groq_client.chat.completions.create() does: it returns a text
\* ("ok"), or raises. str(e) of the exception either is no rate-limit
\* message ("generic"), or holds "429" and "rate_limit_exceeded" and then:
\* no "Please try again in <X>s" ("rate_nowait"), an <X> that float()
\* accepts ("rate_wait", wait = X), or an <X> of digits and dots that
\* float() rejects, such as "1.2.3" ("rate_badwait").
ServiceAnswers ==
    {[kind |-> k, wait |-> 0] :
        k \in {"ok", "generic", "rate_nowait", "rate_badwait"}}
      \cup {[kind |-> "rate_wait", wait |-> w] : w \in 1..MaxWait}

IdleGroq ==
    [ pc |-> "idle", attempt |-> 0, attempts |-> 0, result |-> "none",
      answers |-> <<>>, sleeps |-> <<>> ]

\* _get_initial_memory: plot.premise "", plot.themes [], plot.outline [],
\* metadata.blurb "", metadata.cover_prompt "" (a premise or themes value 0
\* is the blank text; "empty" is the text "")
InitialContent ==
    [ premise |-> 0, themes |-> 0, outline |-> <<>>,
      blurb |-> "empty", cover_prompt |-> "empty" ]

\* SemanticMemory.__init__, lines 35-36: self.index = None,
\* self.text_chunks = {}. The index is the sequence of (id, vector) pairs
\* added with add_with_ids, a vector being named by the chunk it embeds.
EmptyStore ==
    [ is_available |-> FALSE, hasIndex |-> FALSE, index |-> <<>>,
      text_chunks |-> [i \in {} |-> 0] ]

\* neither semantic_index.faiss nor text_chunks.json exists
NoFiles ==
    [ index_file  |-> [state |-> "missing", index |-> <<>>],
      chunks_file |-> [state |-> "missing", chunks |-> [i \in {} |-> 0]],
      faults |-> 0 ]

NoStoreOp ==
    [ op |-> "init", result |-> "none", raised |-> FALSE, new_ids |-> <<>>,
      old_ids |-> {} ]

\* the UI handlers that call generate_page() on active_project_state:
\* generate_next_page and write_full_book_interface
Callers == {"ui", "wfb"}

\* a handler outside generate_page()
IdleThread ==
    [ pc |-> "idle", chapter |-> 0, page_in_chapter |-> 0,
      total_pages |-> 0 ]

\* no _update_character_states() call yet
IdleUpdater ==
    [ called |-> FALSE, characters |-> <<>>, focus |-> {}, active |-> {},
      kind |-> "none", returned |-> <<>>, after |-> <<>>, raised |-> FALSE ]

\* no _chunk_text() call yet
IdleChunker ==
    [ called |-> FALSE, text |-> <<>>, chunk_size |-> 0, overlap |-> 0,
      chunks |-> <<>> ]

\* no OutlineGenerator.generate() call yet
IdleOG ==
    [ num_chapters |-> 0, result |-> "none", outline |-> <<>>,
      response |-> [kind |-> "none", sections |-> FALSE,
                    hasCharacters |-> FALSE, outline |-> <<>>] ]

\* the rate-limit branch sleeping the backoff as well
Mut_RateLimitSleeps(wait, attempt) ==
    <<[kind |-> "wait", secs |-> wait + 1],
      [kind |-> "backoff", secs |-> Pow2(attempt)]>>

\* _call_groq, lines 225-229: wait_seconds = float(...) + 1; time.sleep;
\* continue
RateLimitSleeps(wait, attempt) == <<[kind |-> "wait", secs |-> wait + 1]>>

\* _call_groq, line 233: attempt + 1 == max_retries
LastAttempt(attempt) == attempt + 1 = max_retries

\* _call_groq, lines 203-242: one iteration of `for attempt in
\* range(max_retries)` on the service's answer ans, up to the return, the
\* exception or the next iteration; the return after the loop (line 242) is
\* taken when the range is exhausted by a `continue`.
CallGroqStep(g, ans) ==
    LET g1 == [g EXCEPT !.attempts = @ + 1, !.answers = Append(@, ans)]
        next(g2) == IF g2.attempt + 1 >= max_retries
                    THEN [g2 EXCEPT !.pc = "returned", !.result = "error"]
                    ELSE [g2 EXCEPT !.attempt = @ + 1]
    IN  CASE ans.kind = "ok" ->
                [g1 EXCEPT !.pc = "returned", !.result = "ok"]
          [] ans.kind = "rate_badwait" ->
                [g1 EXCEPT !.pc = "raised"]
          [] ans.kind = "rate_wait" ->
                next([g1 EXCEPT !.sleeps =
                        @ \o RateLimitSleeps(ans.wait, g.attempt)])
          [] OTHER ->
                IF LastAttempt(g.attempt)
                THEN [g1 EXCEPT !.pc = "returned", !.result = "error"]
                ELSE [g1 EXCEPT !.attempt = @ + 1,
                         !.sleeps = Append(@, [kind |-> "backoff",
                                               secs |-> Pow2(g.attempt)])]

\* self._call_groq(prompt) is entered
GroqCall ==
    /\ groq.pc # "try"
    /\ groq' = [IdleGroq EXCEPT !.pc = "try"]
    /\ UNCHANGED <<BookVars, og, ContentVars, chunker, StoreVars, cu, ThreadVars>>

\* one underlying attempt and what the loop does with its outcome
GroqAttempt ==
    /\ groq.pc = "try"
    /\ \E ans \in ServiceAnswers : groq' = CallGroqStep(groq, ans)
    /\ UNCHANGED <<BookVars, og, ContentVars, chunker, StoreVars, cu, ThreadVars>>

\* ---------------------------------------------------------------- actions
WfbActive == wfb.pc \in {"created", "yielded", "error_yield", "final_yield"}

Init ==
    /\ memory = InitialMemory
    /\ disk = [state |-> "none", doc |-> InitialMemory]
    /\ book = <<>>
    /\ semantic \in {[is_available |-> a] : a \in BOOLEAN}
    /\ wfb = IdleWfb
    /\ faults = 0
    /\ last = NoLast
    /\ groq = IdleGroq
    /\ og = IdleOG
    /\ cmem = InitialContent
    /\ cdisk = [state |-> "none", doc |-> InitialContent]
    /\ clast = [op |-> "init", result |-> "none"]
    /\ chunker = IdleChunker
    /\ store = EmptyStore
    /\ sfiles = NoFiles
    /\ slast = NoStoreOp
    /\ cu = IdleUpdater
    /\ shared = [mem |-> InitialMemory, book |-> <<>>]
    /\ threads = [t \in Callers |-> IdleThread]

\* BookWriter.generate_page() called by the UI (generate_next_page)
GeneratePage ==
    /\ UNCHANGED AuxVars
    /\ ~WfbActive
    /\ \E in \in GPInputs(memory, semantic) :
        LET r == GeneratePageOp(memory, book, disk, semantic, in)
        IN  /\ faults + FaultsOf(r) <= MaxFaults
            /\ memory' = r.mem
            /\ book' = r.book
            /\ disk' = r.disk
            /\ semantic' = r.sem
            /\ faults' = faults + FaultsOf(r)
            /\ last' = LastOf("generate_page", r)
            /\ wfb' = IdleWfb

\* --------------------------------------------------------------- outline
\* The chapter lists a model response may carry: 1..MaxChapters chapters,
\* numbered from 1 or (wrongly) from 2.
ResponseOutlines ==
    UNION {{[i \in 1..n |-> [number |-> i + off, pages_estimate |-> pe[i]]] :
                pe \in [1..n -> 1..MaxPages], off \in {0, 1}} :
            n \in 1..MaxChapters}

ResponseDefault == <<[number |-> 1, pages_estimate |-> 1]>>

\* OutlineGenerator._validate_outline: chapter count and numbering
ValidateOutline(outline, expected_chapters) ==
    /\ Len(outline) = expected_chapters
    /\ \A i \in 1..Len(outline) : outline[i].number = i

\* generate_outline, lines 314-331: memory.update(outline_data) replaces the
\* outline and the characters (each stamped with the initial state) and
\* keeps chapters_summary and writing_progress
CommitOutline(mem, outline) ==
    [mem EXCEPT !.plot_outline = outline,
                !.characters = [c \in Chars |-> 0]]

\* BookWriter.generate_outline(premise, num_chapters, themes)
GenerateOutline ==
    /\ UNCHANGED AuxVars
    /\ ~WfbActive
    /\ \E num_chapters \in 1..MaxChapters,
          parsed \in BOOLEAN,
          outline \in ResponseOutlines,
          save \in SaveOutcomes :
        LET ok == parsed /\ ValidateOutline(outline, num_chapters)
            mem1 == CommitOutline(memory, outline)
        IN  /\ ~ok => save = "ok" /\ (~parsed => outline = ResponseDefault)
            /\ (ok /\ save # "ok") => faults < MaxFaults
            /\ memory' = IF ok THEN mem1 ELSE memory
            /\ disk' = IF ok THEN SaveMemory(mem1, disk, save) ELSE disk
            /\ faults' = IF ok /\ save # "ok" THEN faults + 1 ELSE faults
            /\ last' = [NoLast EXCEPT !.op = "generate_outline",
                           !.genCalls = 1,
                           !.status = IF ok THEN "ok" ELSE "error",
                           !.raised = ok /\ save # "ok"]
    /\ UNCHANGED <<book, semantic>>
    /\ wfb' = IdleWfb

\* The top-level keys a response document may carry beside 'world',
\* 'characters' and 'plot' (_validate_outline tests only that these three
\* are there): each with the value of a new project
ExtraKeys == {{}, {"writing_progress"}, {"chapters_summary"}}

\* generate_outline, line 316: self.memory.update(outline_data) replaces
\* every top-level key the response document has
UpdateWithData(mem, outline, extra) ==
    [CommitOutline(mem, outline) EXCEPT
        !.writing_progress =
            IF "writing_progress" \in extra
            THEN InitialMemory.writing_progress ELSE @,
        !.chapters_summary =
            IF "chapters_summary" \in extra THEN <<>> ELSE @]

\* BookWriter.generate_outline(premise, num_chapters, themes) over every
\* document the model may answer with
GenerateOutlineRaw ==
    /\ UNCHANGED AuxVars
    /\ ~WfbActive
    /\ \E num_chapters \in 1..MaxChapters,
          parsed \in BOOLEAN,
          outline \in ResponseOutlines,
          extra \in ExtraKeys,
          save \in SaveOutcomes :
        LET ok == parsed /\ ValidateOutline(outline, num_chapters)
            mem1 == UpdateWithData(memory, outline, extra)
        IN  /\ extra # {} => Len(book) <= MaxRewrite
            /\ ~ok => save = "ok" /\ extra = {}
                        /\ (~parsed => outline = ResponseDefault)
            /\ (ok /\ save # "ok") => faults < MaxFaults
            /\ memory' = IF ok THEN mem1 ELSE memory
            /\ disk' = IF ok THEN SaveMemory(mem1, disk, save) ELSE disk
            /\ faults' = IF ok /\ save # "ok" THEN faults + 1 ELSE faults
            /\ last' = [NoLast EXCEPT !.op = "generate_outline",
                           !.genCalls = 1,
                           !.status = IF ok THEN "ok" ELSE "error",
                           !.raised = ok /\ save # "ok"]
    /\ UNCHANGED <<book, semantic>>
    /\ wfb' = IdleWfb

\* A new BookWriter for the project (the UI's load): load_memory over the
\* initial memory, a new availability probe of the semantic memory.
LoadProject ==
    /\ UNCHANGED AuxVars
    /\ ~WfbActive
    /\ memory' = LoadMemory(disk)
    /\ semantic' \in {[is_available |-> a] : a \in BOOLEAN}
    /\ wfb' = IdleWfb
    /\ last' = [NoLast EXCEPT !.op = "load"]
    /\ UNCHANGED <<disk, book, faults>>

\* ------------------------------------------- OutlineGenerator.generate
\* _post_process_outline: chapter['pages_estimate'] = 12
default_pages == 12

\* A chapter of a model response: its number, its pages_estimate (an
\* integer, or a JSON value that is no number such as "12", pe_type =
\* "str") and the length of its key_events list.
ResponseChapters(i) ==
    {[number |-> n, pages_estimate |-> pe, pe_type |-> "int",
      key_events |-> k] :
        n \in {i, i + 1}, pe \in 0..MaxPages, k \in 0..1}
      \cup {[number |-> n, pages_estimate |-> 0, pe_type |-> "str",
             key_events |-> k] : n \in {i, i + 1}, k \in 0..1}

\* The responses of the model: an error-marker text or another text that
\* json.loads rejects, or a JSON document: whether its sections are there
\* with the right types, whether it has characters, and its plot.outline.
OGResponses ==
    {[kind |-> k, sections |-> FALSE, hasCharacters |-> FALSE,
      outline |-> <<>>] : k \in {"error", "unparsable"}}
      \cup UNION {{[kind |-> "json", sections |-> sec, hasCharacters |-> hc,
                    outline |-> o] :
                       sec \in BOOLEAN, hc \in BOOLEAN,
                       o \in {f \in [1..n -> UNION {ResponseChapters(i) :
                                                    i \in 1..n}] :
                                \A i \in 1..n : f[i] \in ResponseChapters(i)}} :
                  n \in 0..MaxChapters}

\* _parse_outline_response: None unless the text is JSON
ParseOutlineResponse(response) == response.kind = "json"

\* _validate_outline on the parsed document
ValidateOutlineData(data, expected_chapters) ==
    /\ data.sections
    /\ data.hasCharacters
    /\ ValidateOutline(data.outline, expected_chapters)
    /\ \A i \in 1..Len(data.outline) : data.outline[i].key_events >= 1

\* _post_process_outline: `chapter['pages_estimate'] <= 0` raises TypeError
\* on a value that is no number; a value <= 0 becomes 12
PostProcessOutline(outline) ==
    IF \E i \in 1..Len(outline) : outline[i].pe_type = "str"
    THEN [raised |-> TRUE, outline |-> outline]
    ELSE [raised |-> FALSE,
          outline |-> [i \in 1..Len(outline) |->
                         IF outline[i].pages_estimate <= 0
                         THEN [outline[i] EXCEPT
                                  !.pages_estimate = default_pages]
                         ELSE outline[i]]]

\* OutlineGenerator.generate: an error result, a success result with the
\* processed outline, or the exception of the post-processing
OutlineGenerate(response, num_chapters) ==
    IF ~ParseOutlineResponse(response)
    THEN [result |-> "error", outline |-> <<>>]
    ELSE IF ~ValidateOutlineData(response, num_chapters)
    THEN [result |-> "error", outline |-> <<>>]
    ELSE LET pp == PostProcessOutline(response.outline)
         IN  IF pp.raised THEN [result |-> "raised", outline |-> <<>>]
             ELSE [result |-> "ok", outline |-> pp.outline]

\* outline_generator.generate(premise, num_chapters, themes, author_style)
OutlineGeneratorGenerate ==
    /\ og.result = "none"
    /\ \E num_chapters \in 1..MaxChapters, response \in OGResponses :
         LET r == OutlineGenerate(response, num_chapters)
         IN  og' = [num_chapters |-> num_chapters, response |-> response,
                    result |-> r.result, outline |-> r.outline]
    /\ UNCHANGED <<BookVars, groq, ContentVars, chunker, StoreVars, cu, ThreadVars>>

\* ------------------------------------- outline, blurb and cover prompt
\* premises and themes a user may type (0 is the blank text)
MaxPremises == 2

GoodChapter(i) ==
    [number |-> i, pages_estimate |-> 1, pe_type |-> "int", key_events |-> 1]

\* The model responses to an outline prompt for n chapters: the error
\* marker of _call_groq, a text that is no JSON, a JSON document lacking
\* sections, a well-formed outline, and one whose first pages_estimate is
\* no number.
ContentResponses(n) ==
    LET good == [kind |-> "json", sections |-> TRUE, hasCharacters |-> TRUE,
                 outline |-> [i \in 1..n |-> GoodChapter(i)]]
    IN  {[kind |-> k, sections |-> FALSE, hasCharacters |-> FALSE,
          outline |-> <<>>] : k \in {"error", "unparsable"}}
          \cup {[good EXCEPT !.sections = FALSE], good,
                [good EXCEPT !.outline[1].pe_type = "str"]}

\* exceptions raised so far on these operations (bounded by MaxFaults)
ContentFaults == IF clast.result = "raised" THEN 1 ELSE 0

\* InputValidator.validate_premise / validate_themes: a blank text is
\* rejected
ValidatePremise(premise) == premise # 0
ValidateThemes(themes) == themes # 0

\* generate_outline, lines 297-298
StorePremise(mem, premise, themes) ==
    [mem EXCEPT !.premise = premise, !.themes = themes]

\* generate_outline, lines 314-316: memory.update(outline_data) replaces
\* 'plot', with the premise and themes of the response (post-processed to
\* "" and [] when the response has none)
UpdateWithOutline(mem, outline, plot_premise, plot_themes) ==
    [mem EXCEPT !.outline = outline, !.premise = plot_premise,
                !.themes = plot_themes]

\* BookWriter.generate_outline(premise, num_chapters, themes): the text
\* fields it reads and writes
GenerateOutlineContent ==
    /\ ContentFaults < MaxFaults
    /\ \E premise \in 0..MaxPremises, themes \in 0..MaxPremises,
          num_chapters \in 1..MaxChapters, echo \in BOOLEAN,
          save \in SaveOutcomes :
        \E response \in ContentResponses(num_chapters) :
        LET r    == OutlineGenerate(response, num_chapters)
            mem1 == StorePremise(cmem, premise, themes)
            mem2 == UpdateWithOutline(mem1, r.outline,
                        IF echo THEN premise ELSE 0,
                        IF echo THEN themes ELSE 0)
        IN  /\ (r.result # "ok") => (echo /\ save = "ok")
            /\ IF ~ValidatePremise(premise) \/ ~ValidateThemes(themes)
               THEN /\ response.kind = "error" /\ echo /\ save = "ok"
                    /\ cmem' = cmem
                    /\ cdisk' = cdisk
                    /\ clast' = [op |-> "generate_outline",
                                 result |-> "rejected"]
               ELSE IF r.result # "ok"
               THEN /\ cmem' = mem1
                    /\ cdisk' = cdisk
                    /\ clast' = [op |-> "generate_outline",
                                 result |-> r.result]
               ELSE /\ cmem' = mem2
                    /\ cdisk' = SaveMemory(mem2, cdisk, save)
                    /\ clast' = [op |-> "generate_outline",
                                 result |-> IF save = "ok" THEN "ok"
                                            ELSE "raised"]
    /\ UNCHANGED <<BookVars, groq, og, chunker, StoreVars, cu, ThreadVars>>

\* BookWriter.generate_book_blurb, lines 657-674: the text of _call_groq is
\* stored and saved whatever ContentValidator.validate_blurb says
BookBlurb(mem, dk, blurb, save) ==
    LET mem1 == [mem EXCEPT !.blurb = blurb]
    IN  [mem |-> mem1, disk |-> SaveMemory(mem1, dk, save),
         raised |-> save # "ok"]

\* `not metadata.get('blurb')`
Falsy(text) == text = "empty"

\* BookWriter.generate_book_blurb()
GenerateBookBlurb ==
    /\ ContentFaults < MaxFaults
    /\ \E blurb \in GenTexts, save \in SaveOutcomes :
        LET r == BookBlurb(cmem, cdisk, blurb, save)
        IN  /\ cmem' = r.mem
            /\ cdisk' = r.disk
            /\ clast' = [op |-> "generate_book_blurb",
                         result |-> IF r.raised THEN "raised" ELSE blurb]
    /\ UNCHANGED <<BookVars, groq, og, chunker, StoreVars, cu, ThreadVars>>

\* BookWriter.generate_cover_art(), lines 689-708: the blurb is generated
\* first when there is none, then the text of _call_groq becomes
\* metadata.cover_prompt and is saved
GenerateCoverArt ==
    /\ ContentFaults < MaxFaults
    /\ \E blurb \in GenTexts, save1 \in SaveOutcomes,
          prompt \in GenTexts, save2 \in SaveOutcomes :
        LET b  == IF Falsy(cmem.blurb)
                  THEN BookBlurb(cmem, cdisk, blurb, save1)
                  ELSE [mem |-> cmem, disk |-> cdisk, raised |-> FALSE]
            mem1 == [b.mem EXCEPT !.cover_prompt = prompt]
        IN  /\ ~Falsy(cmem.blurb) => (blurb = "ok" /\ save1 = "ok")
            /\ b.raised => (prompt = "ok" /\ save2 = "ok")
            /\ IF b.raised
               THEN /\ cmem' = b.mem
                    /\ cdisk' = b.disk
                    /\ clast' = [op |-> "generate_cover_art",
                                 result |-> "raised"]
               ELSE /\ cmem' = mem1
                    /\ cdisk' = SaveMemory(mem1, b.disk, save2)
                    /\ clast' = [op |-> "generate_cover_art",
                                 result |-> IF save2 = "ok" THEN prompt
                                            ELSE "raised"]
    /\ UNCHANGED <<BookVars, groq, og, chunker, StoreVars, cu, ThreadVars>>

\* ------------------------------------------- SemanticMemory._chunk_text
MaxTextLen == 7       \* characters of a chapter text
MaxChunk   == 3       \* chunk_size of a call

\* A text is a sequence of characters: letters and the blank
Alphabet == {"a", "b", " "}
Texts == UNION {[1..n -> Alphabet] : n \in 0..MaxTextLen}

\* str.split(): the maximal runs of non-blank characters, in order
RECURSIVE SplitAcc(_, _, _, _)
SplitAcc(text, i, cur, acc) ==
    IF i > Len(text)
    THEN IF cur = <<>> THEN acc ELSE Append(acc, cur)
    ELSE IF text[i] = " "
    THEN SplitAcc(text, i + 1, <<>>,
                  IF cur = <<>> THEN acc ELSE Append(acc, cur))
    ELSE SplitAcc(text, i + 1, Append(cur, text[i]), acc)

Split(text) == SplitAcc(text, 1, <<>>, <<>>)

\* " ".join(words)
RECURSIVE Join(_)
Join(words) ==
    IF words = <<>> THEN <<>>
    ELSE IF Len(words) = 1 THEN words[1]
    ELSE words[1] \o <<" ">> \o Join(Tail(words))

\* len(range(0, n, step))
RangeLen(n, step) == (n + step - 1) \div step

\* words[i:i + chunk_size], i counted from 0
Slice(words, i, chunk_size) ==
    SubSeq(words, i + 1,
           IF i + chunk_size <= Len(words) THEN i + chunk_size
           ELSE Len(words))

\* _chunk_text that starts every chunk where the previous one ended
Mut_ChunkStep(chunk_size, overlap) == chunk_size

\* the step of range(0, len(words), chunk_size - overlap)
ChunkStep(chunk_size, overlap) == chunk_size - overlap

\* the number of values of range(0, len(words), chunk_size - overlap)
ChunkStarts(n, chunk_size, overlap) ==
    RangeLen(n, ChunkStep(chunk_size, overlap))

\* _chunk_text(text, chunk_size, overlap)
ChunkText(text, chunk_size, overlap) ==
    LET words == Split(text)
    IN  [k \in 1..ChunkStarts(Len(words), chunk_size, overlap) |->
            Join(Slice(words, (k - 1) * ChunkStep(chunk_size, overlap),
                       chunk_size))]

\* self._chunk_text(text, chunk_size, overlap), overlap < chunk_size
ChunkTextCall ==
    /\ ~chunker.called
    /\ \E text \in Texts, chunk_size \in 2..MaxChunk :
        \E overlap \in 0..(chunk_size - 1) :
           chunker' = [called |-> TRUE, text |-> text,
                       chunk_size |-> chunk_size, overlap |-> overlap,
                       chunks |-> ChunkText(text, chunk_size, overlap)]
    /\ UNCHANGED <<BookVars, groq, og, ContentVars, StoreVars, cu, ThreadVars>>

\* -------------------------------------------------------- SemanticMemory
\* _chunk_text defaults
default_chunk_size == 250
default_overlap == 50

MaxIndex == 3         \* vectors in the index

\* word counts of the chapter texts handed to add_chapter
ChapterWords == {0, 100, 300}

\* the ids in the index
IndexIds(index) == {index[i].id : i \in 1..Len(index)}

\* the subsequence of chunks whose embedding was generated
RECURSIVE Embedded(_, _, _)
Embedded(chunks, emb, k) ==
    IF k > Len(chunks) THEN <<>>
    ELSE (IF k \in emb THEN <<chunks[k]>> ELSE <<>>)
            \o Embedded(chunks, emb, k + 1)

\* add_chapter, line 60: `if not self.is_available: return`
StoreUsable(st) == st.is_available

\* add_chapter, lines 91-92: self.text_chunks[chunk_id] = chunks[i] for
\* i, chunk_id in enumerate(new_ids)
UpdateChunks(text_chunks, new_ids, chunks) ==
    [id \in DOMAIN text_chunks \cup {new_ids[j] : j \in 1..Len(new_ids)} |->
        IF \E j \in 1..Len(new_ids) : new_ids[j] = id
        THEN chunks[CHOOSE j \in 1..Len(new_ids) : new_ids[j] = id]
        ELSE text_chunks[id]]

\* _save: write_index when there is an index, then text_chunks.json is
\* opened with 'w' and dumped. save says how far it gets.
SemanticSave(st, files, save) ==
    LET idx == IF st.hasIndex /\ save # "fail_index"
               THEN [state |-> "ok", index |-> st.index]
               ELSE files.index_file
    IN  CASE save = "ok" ->
                [files EXCEPT !.index_file = idx,
                    !.chunks_file = [state |-> "ok",
                                     chunks |-> st.text_chunks]]
          [] save = "fail_write" ->
                [files EXCEPT !.index_file = idx,
                    !.chunks_file.state = "corrupt", !.faults = @ + 1]
          [] OTHER ->
                [files EXCEPT !.index_file = idx, !.faults = @ + 1]

SemSaveOutcomes == {"ok", "fail_index", "fail_open", "fail_write"}

\* add_chapter(chapter_number, chapter_text) on a text of `words` words;
\* emb is the set of chunks (by position) whose embedding is generated
AddChapterOp(st, files, chapter_number, words, emb, save) ==
    LET n       == ChunkStarts(words, default_chunk_size, default_overlap)
        chunks  == [k \in 1..n |-> [ch |-> chapter_number, k |-> k]]
        new_vectors == Embedded(chunks, emb, 1)
        new_ids == [j \in 1..Len(new_vectors) |->
                        Cardinality(DOMAIN st.text_chunks) + j - 1]
        st1 == [st EXCEPT
                  !.hasIndex = TRUE,
                  !.index = @ \o [j \in 1..Len(new_ids) |->
                                    [id |-> new_ids[j],
                                     chunk |-> new_vectors[j]]],
                  !.text_chunks = UpdateChunks(@, new_ids, chunks)]
    IN  IF ~StoreUsable(st)
        THEN [store |-> st, files |-> files, result |-> "unavailable",
              raised |-> FALSE, new_ids |-> <<>>]
        ELSE IF new_vectors = <<>>
        THEN [store |-> st, files |-> files, result |-> "no_embeddings",
              raised |-> FALSE, new_ids |-> <<>>]
        ELSE [store |-> st1, files |-> SemanticSave(st1, files, save),
              result |-> "added", raised |-> save # "ok",
              new_ids |-> new_ids]

\* semantic_memory.add_chapter(number, text)
AddChapter ==
    /\ \E chapter_number \in 1..MaxChapters, words \in ChapterWords,
          save \in SemSaveOutcomes :
        LET n == ChunkStarts(words, default_chunk_size, default_overlap)
        IN  \E emb \in SUBSET (1..n) :
            LET r == AddChapterOp(store, sfiles, chapter_number, words,
                                  emb, save)
            IN  /\ Len(r.store.index) <= MaxIndex
                /\ r.files.faults <= MaxFaults
                /\ r.result # "added" => save = "ok"
                /\ ~store.is_available => (emb = {} /\ words = 300)
                /\ store' = r.store
                /\ sfiles' = r.files
                /\ slast' = [op |-> "add_chapter", result |-> r.result,
                             raised |-> r.raised, new_ids |-> r.new_ids,
                             old_ids |-> IndexIds(store.index)]
    /\ UNCHANGED <<BookVars, groq, og, ContentVars, chunker, cu, ThreadVars>>

\* search_relevant_context that only looks for an index
Mut_SearchUsable(st) == st.hasIndex

\* search_relevant_context, line 101: `not self.index or not
\* self.is_available` returns the placeholder
SearchUsable(st) == st.hasIndex /\ st.is_available

\* search_relevant_context(query): the placeholder without a usable index,
\* else one of the other fixed answers or the chunks found
SearchResult(st, embOK, searchOK, found) ==
    IF ~SearchUsable(st) THEN "unavailable"
    ELSE IF ~embOK THEN "no_query_embedding"
    ELSE IF ~searchOK THEN "search_error"
    ELSE IF found \cap DOMAIN st.text_chunks = {} THEN "nothing_relevant"
    ELSE "context"

\* semantic_memory.search_relevant_context(query)
SearchRelevantContext ==
    /\ \E embOK \in BOOLEAN, searchOK \in BOOLEAN,
          found \in {{}, IndexIds(store.index)} :
         /\ (~store.hasIndex \/ ~store.is_available) =>
                (embOK /\ searchOK /\ found = {})
         /\ slast' = [NoStoreOp EXCEPT !.op = "search",
                         !.result = SearchResult(store, embOK, searchOK,
                                                 found)]
    /\ UNCHANGED <<store, sfiles>>
    /\ UNCHANGED <<BookVars, groq, og, ContentVars, chunker, cu, ThreadVars>>

\* _load: a missing or unreadable index file leaves index = None, a missing
\* or unreadable chunk file leaves text_chunks = {}
SemanticLoadOp(files, available) ==
    [ is_available |-> available,
      hasIndex    |-> files.index_file.state = "ok",
      index       |-> IF files.index_file.state = "ok"
                      THEN files.index_file.index ELSE <<>>,
      text_chunks |-> IF files.chunks_file.state = "ok"
                      THEN files.chunks_file.chunks
                      ELSE [i \in {} |-> 0] ]

\* SemanticMemory(project_path): the availability probe and _load
SemanticInit ==
    /\ \E available \in BOOLEAN : store' = SemanticLoadOp(sfiles, available)
    /\ slast' = [NoStoreOp EXCEPT !.op = "load"]
    /\ UNCHANGED sfiles
    /\ UNCHANGED <<BookVars, groq, og, ContentVars, chunker, cu, ThreadVars>>

\* one of the two files is lost or damaged behind the program's back
DamageFile ==
    /\ sfiles.faults < MaxFaults
    /\ \E how \in {"missing", "corrupt"} :
        \/ /\ sfiles.index_file.state = "ok"
           /\ sfiles' = [sfiles EXCEPT !.index_file.state = how,
                                       !.faults = @ + 1]
        \/ /\ sfiles.chunks_file.state = "ok"
           /\ sfiles' = [sfiles EXCEPT !.chunks_file.state = how,
                                       !.faults = @ + 1]
    /\ slast' = [NoStoreOp EXCEPT !.op = "damage"]
    /\ UNCHANGED store
    /\ UNCHANGED <<BookVars, groq, og, ContentVars, chunker, cu, ThreadVars>>

\* ------------------------------------------- _update_character_states
\* The texts the model may answer to the update prompt: JSON ("dict"), a
\* text json.loads rejects ("unparsable") or the error marker of
\* _call_groq ("error"); vals is what the text says about each character.
UpdaterResponses ==
    {[kind |-> k, vals |-> v] :
        k \in {"dict", "unparsable", "error"}, v \in [Chars -> UpdValues]}

\* self._update_character_states(chapter_info, content) at a chapter
\* completion: characters are the states in memory, focus the chapter's
\* character_focus, active the characters the chapter text mentions
UpdateCharacterStatesCall ==
    /\ ~cu.called
    /\ \E characters \in [Chars -> 0..MaxStates],
          focus \in SUBSET Chars, active \in SUBSET Chars,
          upd \in UpdaterResponses :
        LET ret == UpdateAfterChapter(upd, Chars, characters)
            r   == UpdateCharacterStates([characters |-> characters], upd)
        IN  cu' = [called |-> TRUE, characters |-> characters,
                   focus |-> focus, active |-> active, kind |-> upd.kind,
                   returned |-> ret.states, after |-> r.states,
                   raised |-> r.raised]
    /\ UNCHANGED <<BookVars, groq, og, ContentVars, chunker, StoreVars,
                   ThreadVars>>

\* ----------------------------------- generate_page from two UI handlers
\* The project is loaded: a memory with an outline, nothing written
ThreadsLoad ==
    /\ shared.mem.plot_outline = <<>>
    /\ \E outline \in ResponseOutlines :
        /\ ValidateOutline(outline, Len(outline))
        /\ shared' = [shared EXCEPT !.mem = CommitOutline(@, outline)]
    /\ UNCHANGED threads
    /\ UNCHANGED <<BookVars, groq, og, ContentVars, chunker, StoreVars, cu>>

\* generate_page, lines 354-365: the handler reads the cursor; the model
\* call that follows takes seconds
ThreadRead(t) ==
    /\ threads[t].pc = "idle"
    /\ shared.mem.plot_outline # <<>>
    /\ IF IsBookComplete(shared.mem)
       THEN threads' = threads
       ELSE LET chapter_index ==
                    shared.mem.writing_progress.current_chapter_index
                chapter_info == shared.mem.plot_outline[chapter_index + 1]
            IN  threads' = [threads EXCEPT ![t] =
                    [pc |-> "generating", chapter |-> chapter_index + 1,
                     page_in_chapter |->
                        shared.mem.writing_progress.current_page_in_chapter
                            + 1,
                     total_pages |-> chapter_info.pages_estimate]]
    /\ UNCHANGED shared
    /\ UNCHANGED <<BookVars, groq, og, ContentVars, chunker, StoreVars, cu>>

\* generate_page, lines 383-410: the generation returns; a failed one ends
\* the call, a page is appended to book.md
ThreadAppend(t) ==
    /\ threads[t].pc = "generating"
    /\ \E gen \in {"ok", "error"} :
        IF ~PageGenerateSuccess(gen)
        THEN /\ threads' = [threads EXCEPT ![t] = IdleThread]
             /\ UNCHANGED shared
        ELSE /\ shared' = [shared EXCEPT !.book =
                    AppendPageToBook(@,
                        shared.mem.plot_outline[threads[t].chapter],
                        threads[t].page_in_chapter)]
             /\ threads' = [threads EXCEPT ![t].pc = "appended"]
    /\ UNCHANGED <<BookVars, groq, og, ContentVars, chunker, StoreVars, cu>>

\* generate_page, lines 412-421: the progress is updated from the values
\* read at the start of the call, and saved
ThreadUpdate(t) ==
    /\ threads[t].pc = "appended"
    /\ shared' = [shared EXCEPT !.mem =
            IF IsLastPage(threads[t].page_in_chapter, threads[t].total_pages)
            THEN AdvanceChapter(@, shared.mem.plot_outline[threads[t].chapter])
            ELSE SetPageInChapter(@, threads[t].page_in_chapter)]
    /\ threads' = [threads EXCEPT ![t] = IdleThread]
    /\ UNCHANGED <<BookVars, groq, og, ContentVars, chunker, StoreVars, cu>>

\* -------------------------------------------------------- write_full_book
\* The state write_full_book() is called in
StartKind(mem) ==
    IF mem.plot_outline = <<>> THEN "awaiting"
    ELSE IF mem.writing_progress.current_chapter_index >= Len(mem.plot_outline)
    THEN "completed"
    ELSE IF mem.writing_progress.current_page_in_chapter <
            mem.plot_outline[mem.writing_progress.current_chapter_index + 1]
                .pages_estimate
    THEN "writing"
    ELSE "overrun"

\* pages of the outline from the cursor on
RemainingPages(mem) ==
    IF IsBookComplete(mem) THEN 0
    ELSE SumPages(mem.plot_outline, Len(mem.plot_outline))
           - SumPages(mem.plot_outline,
                      mem.writing_progress.current_chapter_index)
           - mem.writing_progress.current_page_in_chapter

\* write_full_book, lines 569-584: total_pages and pages_written; the
\* subtraction raises TypeError on the chapter number "N/A"
WfbPrologue(mem) ==
    LET outline     == mem.plot_outline
        status_dict == GetStatus(mem)
        number == IF status_dict.hasKeys
                  THEN status_dict.current_chapter_number ELSE 1
        page   == IF status_dict.hasKeys
                  THEN status_dict.current_page ELSE 1
        current_chap_idx == number - 1
    IN  IF number = NA
        THEN [raised |-> TRUE, total_pages |-> 0, pages_written |-> 0]
        ELSE [raised |-> FALSE,
              total_pages |-> SumPages(outline, Len(outline)),
              pages_written |->
                  (IF current_chap_idx > 0
                   THEN SumPages(outline, current_chap_idx) ELSE 0)
                  + page - 1]

\* StatusIsError that takes only a blank status for a failure
Mut_StatusIsError(status) == IsBlank(status)

\* write_full_book, line 601
StatusIsError(status) == ContainsError(status)

\* write_full_book, lines 590-629: from the loop test to the next yield,
\* return or exception. w is the generator, r the generate_page() result.
WfbIterate(w, completed, r, in) ==
    IF completed
    THEN [w EXCEPT !.pc = "final_yield", !.finalYields = @ + 1]
    ELSE
    LET w1 == [w EXCEPT !.calls = @ + 1,
                  !.empties = IF in.gen = "empty" /\ r.genCalls = 1
                              THEN @ + 1 ELSE @,
                  !.clean = @ /\ in.gen = "ok" /\ in.upd.kind # "error"
                              /\ ~in.appendFails /\ in.save = "ok"]
    IN  IF r.raised THEN [w1 EXCEPT !.pc = "raised"]
        ELSE IF StatusIsError(r.status)
        THEN IF w1.total_pages = 0 THEN [w1 EXCEPT !.pc = "raised"]
             ELSE [w1 EXCEPT !.pc = "error_yield", !.errYields = @ + 1]
        ELSE IF w1.total_pages = 0
        THEN [w1 EXCEPT !.pc = "raised", !.pages_written = @ + 1]
        ELSE [w1 EXCEPT !.pc = "yielded", !.pages_written = @ + 1,
                        !.pageYields = @ + 1]

\* book.write_full_book(): the generator object; no code runs yet
WfbCreate ==
    /\ UNCHANGED AuxVars
    /\ ~WfbActive
    /\ wfb' = [IdleWfb EXCEPT !.pc = "created",
                  !.startKind = StartKind(memory),
                  !.startRemaining = RemainingPages(memory)]
    /\ last' = [NoLast EXCEPT !.op = "wfb_create"]
    /\ UNCHANGED <<memory, disk, book, semantic, faults>>

\* The consumer pulls the next pair: the generator runs to its next yield,
\* to its end or to an exception.
WfbPull ==
    \/ /\ UNCHANGED AuxVars
       /\ wfb.pc \in {"created", "yielded"}
       /\ LET pro == IF wfb.pc = "created" THEN WfbPrologue(memory)
                     ELSE [raised |-> FALSE, total_pages |-> wfb.total_pages,
                           pages_written |-> wfb.pages_written]
              w0  == [wfb EXCEPT !.total_pages = pro.total_pages,
                                 !.pages_written = pro.pages_written]
              status_dict == GetStatus(memory)
              completed   == status_dict.hasKeys /\ status_dict.completed
          IN  IF pro.raised
              THEN /\ wfb' = [w0 EXCEPT !.pc = "raised"]
                   /\ last' = [NoLast EXCEPT !.op = "wfb_pull"]
                   /\ UNCHANGED <<memory, disk, book, semantic, faults>>
              ELSE IF completed
              THEN /\ wfb' = WfbIterate(w0, TRUE, 0, 0)
                   /\ last' = [NoLast EXCEPT !.op = "wfb_pull"]
                   /\ UNCHANGED <<memory, disk, book, semantic, faults>>
              ELSE \E in \in GPInputs(memory, semantic) :
                    LET r == GeneratePageOp(memory, book, disk, semantic, in)
                    IN  /\ faults + FaultsOf(r) <= MaxFaults
                        /\ in.gen = "empty" => wfb.empties < MaxEmpties
                        /\ memory' = r.mem
                        /\ book' = r.book
                        /\ disk' = r.disk
                        /\ semantic' = r.sem
                        /\ faults' = faults + FaultsOf(r)
                        /\ last' = LastOf("wfb_pull", r)
                        /\ wfb' = WfbIterate(w0, FALSE, r, in)
    \/ /\ UNCHANGED AuxVars
       /\ wfb.pc \in {"error_yield", "final_yield"}
       /\ wfb' = [wfb EXCEPT !.pc = IF wfb.pc = "error_yield"
                                    THEN "ended" ELSE "done"]
       /\ last' = [NoLast EXCEPT !.op = "wfb_pull"]
       /\ UNCHANGED <<memory, disk, book, semantic, faults>>

\* The consumer stops pulling at a yield boundary
WfbAbandon ==
    /\ UNCHANGED AuxVars
    /\ wfb.pc = "yielded"
    /\ wfb' = [wfb EXCEPT !.pc = "abandoned"]
    /\ last' = [NoLast EXCEPT !.op = "wfb_abandon"]
    /\ UNCHANGED <<memory, disk, book, semantic, faults>>

Next ==
    \/ GenerateOutline
    \/ GeneratePage
    \/ LoadProject
    \/ WfbCreate
    \/ WfbPull
    \/ WfbAbandon

Spec == Init /\ [][Next]_vars

\* _call_groq on its own
NextGroq == GroqCall \/ GroqAttempt

SpecGroq == Init /\ [][NextGroq]_vars

\* OutlineGenerator.generate on its own
NextOutline == OutlineGeneratorGenerate

SpecOutline == Init /\ [][NextOutline]_vars

\* the operations on the text fields of the memory
NextContent ==
    \/ GenerateOutlineContent
    \/ GenerateBookBlurb
    \/ GenerateCoverArt

SpecContent == Init /\ [][NextContent]_vars

\* _chunk_text on its own
NextChunk == ChunkTextCall

SpecChunk == Init /\ [][NextChunk]_vars

\* the semantic memory on its own
NextSemantic ==
    \/ AddChapter
    \/ SearchRelevantContext
    \/ SemanticInit
    \/ DamageFile

SpecSemantic == Init /\ [][NextSemantic]_vars

\* the character-state update on its own
NextUpdater == UpdateCharacterStatesCall

SpecUpdater == Init /\ [][NextUpdater]_vars

\* two UI handlers on the shared active project
NextThreads ==
    \/ ThreadsLoad
    \/ \E t \in Callers : ThreadRead(t)
    \/ \E t \in Callers : ThreadAppend(t)
    \/ \E t \in Callers : ThreadUpdate(t)

SpecThreads == Init /\ [][NextThreads]_vars

\* outlining again while the book is being written, over every response
\* document
NextReoutline == GenerateOutlineRaw \/ GeneratePage

SpecReoutline == Init /\ [][NextReoutline]_vars

\* ====================================================================
\* Properties
\* ====================================================================
ChapterIndex(mem) == mem.writing_progress.current_chapter_index
PageInChapter(mem) == mem.writing_progress.current_page_in_chapter

\* C1: over every generate_page() call (alone or inside write_full_book,
\* whatever the generation does), current_chapter_index never decreases and
\* grows by at most 1; current_page_in_chapter is 0 after every call that
\* increments the index, and in a call that does not increment it the page
\* counter is never reset: it stays or grows by 1, and it grows by 1 in
\* every call that returns a generated page.
C1_ProgressMonotone ==
    [][ last'.gp =>
          /\ ChapterIndex(memory') >= ChapterIndex(memory)
          /\ ChapterIndex(memory') <= ChapterIndex(memory) + 1
          /\ (ChapterIndex(memory') = ChapterIndex(memory) + 1
                => PageInChapter(memory') = 0)
          /\ (ChapterIndex(memory') = ChapterIndex(memory)
                => PageInChapter(memory') \in
                     {PageInChapter(memory), PageInChapter(memory) + 1})
          /\ (ChapterIndex(memory') = ChapterIndex(memory)
                /\ last'.status = "ok"
                => PageInChapter(memory') = PageInChapter(memory) + 1)
      ]_vars

\* a call has just completed a chapter of more than one page: the index
\* grew and the page counter went from a positive value to 0
C1_Witness ==
    /\ last.gp /\ last.advanced /\ last.status = "ok"
    /\ PageInChapter(memory) = 0
    /\ ChapterIndex(memory) >= 1
    /\ ChapterIndex(memory) <= Len(memory.plot_outline)
    /\ memory.plot_outline[ChapterIndex(memory)].pages_estimate >= 2
    /\ Len(book) >= 3

\* C2: a generate_page() whose page generation returns an error marker
\* leaves writing_progress, chapters_summary, the character states, the
\* manuscript and memory.json as they were (so the cursor still names the
\* same chapter and page for the next call).
C2_ErrorLeavesStateUnchanged ==
    [][ (last'.gp /\ last'.gen = "error") =>
          /\ memory' = memory
          /\ book' = book
          /\ disk' = disk
          /\ last'.status = "error" /\ last'.text = "" /\ ~last'.appended
      ]_vars

\* an error marker was returned in the middle of a chapter
C2_Witness ==
    /\ last.gp /\ last.gen = "error" /\ last.status = "error"
    /\ PageInChapter(memory) >= 1
    /\ book # <<>>

\* C5: chapters_summary has one entry per completed chapter, entry i has
\* number i; an operation of the engine either leaves the list alone or
\* appends one entry, and it appends exactly in the generate_page() calls
\* that advance the chapter index.
SummaryMatchesProgress(mem) ==
    /\ Len(mem.chapters_summary) = ChapterIndex(mem)
    /\ \A i \in 1..Len(mem.chapters_summary) : mem.chapters_summary[i] = i

C6_NothingToDo ==
    [][ (last'.gp /\ IsBookComplete(memory)) =>
          /\ last'.status = "completed" /\ last'.text = ""
          /\ last'.genCalls = 0
          /\ ~last'.semSearch /\ ~last'.semAdd
          /\ ~last'.raised
          /\ memory' = memory /\ book' = book /\ disk' = disk
      ]_vars

\* generate_page() was called on a finished book
C6_Witness ==
    /\ last.op = "generate_page" /\ last.status = "completed"
    /\ memory.plot_outline # <<>>
    /\ ChapterIndex(memory) >= Len(memory.plot_outline)
    /\ book # <<>>

HeadingPositions(n) == {i \in 1..Len(book) : book[i] = Heading(n)}

C3_HeadingExactlyOnce ==
    \A k \in 1..Len(memory.chapters_summary) :
        LET n == memory.chapters_summary[k]
        IN  /\ Cardinality(HeadingPositions(n)) = 1
            /\ \A i \in HeadingPositions(n) :
                 /\ i < Len(book)
                 /\ book[i + 1].kind = "P" /\ book[i + 1].ch = n
                 /\ \A j \in 1..(i - 1) :
                      ~(book[j].kind = "P" /\ book[j].ch = n)

\* C4: once the last page of a chapter is generated and appended, the call
\* advances the chapter index and appends the summary entry, whatever the
\* indexing and the character-state update do.
C4_CompletionAlwaysAdvances ==
    (last.gp /\ last.appended /\ last.wasLast) => last.advanced

\* C7: a write_full_book() started without an outline or on a completed
\* book raises no exception and yields no per-page pair.
C7_ShortCircuit ==
    wfb.startKind \in {"awaiting", "completed"} =>
        (wfb.pc # "raised" /\ wfb.pageYields = 0)

\* C8: in every state between calls and at every yield boundary the pages
\* in the manuscript are the pages writing_progress accounts for, and
\* memory.json shows the progress of the memory.
RECURSIVE CountPages(_)
CountPages(bk) ==
    IF bk = <<>> THEN 0
    ELSE (IF Head(bk).kind = "P" THEN 1 ELSE 0) + CountPages(Tail(bk))

PagesAccounted(mem) ==
    LET done == IF ChapterIndex(mem) <= Len(mem.plot_outline)
                THEN ChapterIndex(mem) ELSE Len(mem.plot_outline)
    IN  SumPages(mem.plot_outline, done) + PageInChapter(mem)

C8_AppendAndProgressAtomic ==
    /\ CountPages(book) = PagesAccounted(memory)
    /\ LoadMemory(disk).writing_progress = memory.writing_progress

\* C9: a write_full_book() started in Writing(c, p), during which every
\* generation call returns a text without error marker and no file
\* operation fails, ends normally after exactly one generate_page() and one
\* per-page pair for each remaining page, with the book completed.
C9_WritesEveryRemainingPage ==
    (/\ wfb.startKind = "writing"
     /\ wfb.clean
     /\ wfb.pc \in {"done", "raised", "ended"})
    => /\ wfb.pc = "done"
       /\ wfb.calls = wfb.startRemaining
       /\ wfb.pageYields = wfb.startRemaining
       /\ wfb.finalYields = 1
       /\ ChapterIndex(memory) = Len(memory.plot_outline)

\* C11: every per-page pair of write_full_book() carries pages_written /
\* total_pages where pages_written counts the pages appended to the
\* manuscript: a step that yields a per-page pair has appended a page, and
\* the fraction does not exceed 1 (pages_written <= total_pages).
C11_FractionCountsAppendedPages ==
    [][ (last'.op = "wfb_pull" /\ wfb'.pageYields = wfb.pageYields + 1) =>
          /\ last'.appended
          /\ wfb'.pages_written >= wfb.pages_written
          /\ wfb'.pages_written <= wfb'.total_pages
      ]_vars

\* C12: an exception raised by generate_page() inside write_full_book()
\* does not leave the generator: the pull ends in a terminal error pair.
C12_ExceptionCaughtPerPage ==
    (last.op = "wfb_pull" /\ last.gp /\ last.raised) =>
        (wfb.pc = "error_yield" /\ wfb.errYields = 1)

\* C13: _call_groq never raises, makes at most max_retries underlying
\* attempts, returns the service's text at the first attempt that
\* succeeds and an error-marker text when no attempt succeeded.
C13_NeverRaisesBoundedAttempts ==
    /\ groq.pc # "raised"
    /\ groq.attempts <= max_retries
    /\ groq.pc = "returned" =>
         /\ groq.result \in {"ok", "error"}
         /\ groq.result = "ok" <=>
              groq.answers[Len(groq.answers)].kind = "ok"
         /\ \A i \in 1..(Len(groq.answers) - 1) : groq.answers[i].kind # "ok"

\* C14: when the service answers only rate-limit responses with an explicit
\* wait until it succeeds, the call does not return the error marker.
C14_RateLimitNotAFailure ==
    (/\ groq.pc = "returned"
     /\ \A i \in 1..Len(groq.answers) :
            groq.answers[i].kind \in {"rate_wait", "ok"})
    => groq.result = "ok"

\* C15: one rate-limit answer with wait w followed by a success returns
\* the text after exactly 2 attempts, with one sleep of w + 1 seconds
\* between them and no backoff sleep.
C15_OneRateLimitThenSuccess ==
    (/\ groq.pc = "returned"
     /\ Len(groq.answers) = 2
     /\ groq.answers[1].kind = "rate_wait"
     /\ groq.answers[2].kind = "ok")
    => /\ groq.result = "ok"
       /\ groq.attempts = 2
       /\ Len(groq.sleeps) = 1
       /\ groq.sleeps[1].kind = "wait"
       /\ groq.sleeps[1].secs >= groq.answers[1].wait
       /\ groq.sleeps[1].secs = groq.answers[1].wait + 1

\* a rate limit asking for the longest wait was followed by a success
C15_Witness ==
    /\ groq.pc = "returned" /\ groq.result = "ok"
    /\ Len(groq.answers) = 2
    /\ groq.answers[1] = [kind |-> "rate_wait", wait |-> MaxWait]
    /\ groq.sleeps # <<>>

\* C17: OutlineGenerator.generate returns an error result, or a success
\* result with num_chapters chapters numbered 1..num_chapters, each with a
\* non-empty key_events list and a pages_estimate of at least 1.
C17_OutlineResultWellFormed ==
    og.result # "none" =>
        \/ og.result = "error"
        \/ /\ og.result = "ok"
           /\ Len(og.outline) = og.num_chapters
           /\ \A i \in 1..Len(og.outline) :
                /\ og.outline[i].number = i
                /\ og.outline[i].key_events >= 1
                /\ og.outline[i].pe_type = "int"
                /\ og.outline[i].pages_estimate >= 1

\* C16: no text containing the error marker is held as content: neither
\* metadata.blurb nor metadata.cover_prompt, in memory or in memory.json
\* (the manuscript and the character states take their texts only through
\* PageGenerateSuccess and ParseUpdateResponse).
C16_NoErrorMarkerPersisted ==
    /\ ~ContainsError(cmem.blurb)
    /\ ~ContainsError(cmem.cover_prompt)
    /\ cdisk.state = "ok" =>
          /\ ~ContainsError(cdisk.doc.blurb)
          /\ ~ContainsError(cdisk.doc.cover_prompt)

\* C18: a generate_outline() that ends with an error result leaves the
\* memory, premise and themes included, and memory.json as they were.
C18_ErrorOutlineCommitsNothing ==
    [][ (clast'.op = "generate_outline" /\ clast'.result = "error") =>
          (cmem' = cmem /\ cdisk' = cdisk)
      ]_vars

\* C19: a text of W words, W > chunk_size, is cut into exactly
\* ceil((W - overlap) / (chunk_size - overlap)) chunks.
C19_ChunkCount ==
    LET W    == Len(Split(chunker.text))
        step == chunker.chunk_size - chunker.overlap
    IN  (chunker.called /\ W > chunker.chunk_size) =>
            Len(chunker.chunks) = (W - chunker.overlap + step - 1) \div step

\* C20: the first chunk_size - overlap words of every chunk (the whole
\* chunk when it has fewer), concatenated in order, are the words of the
\* text; no chunk has more than chunk_size words.
RECURSIVE Reconstruct(_, _)
Reconstruct(chunks, n) ==
    IF chunks = <<>> THEN <<>>
    ELSE LET w == Split(Head(chunks))
         IN  (IF Len(w) <= n THEN w ELSE SubSeq(w, 1, n))
                \o Reconstruct(Tail(chunks), n)

C20_ChunksReconstructText ==
    chunker.called =>
        /\ Reconstruct(chunker.chunks,
                       chunker.chunk_size - chunker.overlap)
             = Split(chunker.text)
        /\ \A k \in 1..Len(chunker.chunks) :
             Len(Split(chunker.chunks[k])) <= chunker.chunk_size

\* a text of four words, with repeated blanks, was cut into overlapping
\* chunks of three words
C20_Witness ==
    /\ chunker.called
    /\ chunker.chunk_size = 3 /\ chunker.overlap = 1
    /\ Len(Split(chunker.text)) = 4
    /\ Len(chunker.chunks) = 2
    /\ Len(Split(chunker.chunks[2])) = 2

\* C21: with the embedding backend unreachable, search_relevant_context
\* returns the fixed placeholder and add_chapter returns without raising
\* and without changing the index, the chunk map or the two files.
C21_UnavailableStoreIsInert ==
    [][ ~store.is_available =>
          /\ slast'.op = "search" =>
                (slast'.result = "unavailable" /\ ~slast'.raised)
          /\ slast'.op = "add_chapter" =>
                /\ ~slast'.raised
                /\ store' = store
                /\ sfiles' = sfiles
      ]_vars

\* add_chapter was called on a store that was loaded with its vectors
\* while the backend was unreachable
C21_Witness ==
    /\ slast.op = "add_chapter" /\ slast.result = "unavailable"
    /\ ~store.is_available
    /\ Len(store.index) >= 2
    /\ sfiles.index_file.state = "ok"

\* C22: every id a call of add_chapter assigns is greater than every id
\* already in the index, and no id is in the index twice.
C22_IdsNeverReused ==
    /\ slast.op = "add_chapter" =>
         \A j \in 1..Len(slast.new_ids) :
            \A old \in slast.old_ids : slast.new_ids[j] > old
    /\ \A i, j \in 1..Len(store.index) :
         store.index[i].id = store.index[j].id => i = j

\* C23: the ids of the index are the keys of the chunk map, and every id
\* maps to the chunk whose embedding the index holds under that id.
C23_IndexMatchesChunkMap ==
    /\ IndexIds(store.index) = DOMAIN store.text_chunks
    /\ \A i \in 1..Len(store.index) :
         /\ store.index[i].id \in DOMAIN store.text_chunks
         /\ store.text_chunks[store.index[i].id] = store.index[i].chunk

\* C24: when the response to the character-state update is no JSON or is
\* an error marker, update_after_chapter returns the current states and
\* the states in memory after the completion are the ones before it.
C24_UnparsableUpdateKeepsStates ==
    (cu.called /\ cu.kind \in {"unparsable", "error"}) =>
        /\ ~cu.raised
        /\ cu.returned = cu.characters
        /\ cu.after = cu.characters

\* an error-marker response reached characters that already had a state
\* of their own
C24_Witness ==
    /\ cu.called /\ cu.kind = "error"
    /\ \A c \in Chars : cu.characters[c] >= 1
    /\ cu.after = cu.characters

\* C25: a chapter completion changes the current_state of no character
\* outside the chapter's character_focus and the characters detected as
\* active in it.
C25_OnlyFocusOrActiveChange ==
    cu.called =>
        \A c \in Chars :
            cu.after[c] # cu.characters[c] => c \in cu.focus \cup cu.active

\* C26: the generate_page() executions of two callers on one project never
\* interleave: at most one caller is inside the call, so no (chapter, page)
\* slot and no chapter heading is written to the manuscript twice.
C26_GeneratePageSerialized ==
    /\ \A t, u \in Callers :
         (threads[t].pc # "idle" /\ threads[u].pc # "idle") => t = u
    /\ \A i, j \in 1..Len(shared.book) :
         shared.book[i] = shared.book[j] => i = j

\* C27: a save_memory() that fails leaves memory.json as the last document
\* that was persisted: a load after the failure restores what a load before
\* it restored.
C27_FailedSaveKeepsPersisted ==
    [][(last'.raised /\ disk.state = "ok")
          => LoadMemory(disk') = LoadMemory(disk)]_vars

\* C28: the generate_page() that appends the last page of chapter N calls
\* add_chapter once, with a text from chapter N's heading that holds every
\* page the manuscript has of chapter N and nothing of another chapter.
C28_CompletedChapterIndexedWhole ==
    [][(last'.gp /\ last'.appended /\ last'.wasLast) =>
        LET n == memory.plot_outline[
                    memory.writing_progress.current_chapter_index + 1].number
            pagesOf(text) ==
                {i \in 1..Len(text) : text[i] = Page(n, text[i].pg)}
        IN  /\ last'.semAdd
            /\ last'.addText[1] = Heading(n)
            /\ \A i \in 2..Len(last'.addText) : i \in pagesOf(last'.addText)
            /\ Cardinality(pagesOf(last'.addText))
                  = Cardinality(pagesOf(book'))]_vars

\* C29: between generate_page() calls, while the book is not complete and
\* every pages_estimate is at least 1, the page counter is below the current
\* chapter's pages_estimate; the chapter index never exceeds the length of
\* the outline.
C29_CursorWithinOutline ==
    LET outline == memory.plot_outline
        current_chapter_index ==
            memory.writing_progress.current_chapter_index
        current_page_in_chapter ==
            memory.writing_progress.current_page_in_chapter
    IN  /\ 0 <= current_chapter_index
        /\ current_chapter_index <= Len(outline)
        /\ (/\ ~IsBookComplete(memory)
            /\ \A i \in 1..Len(outline) : outline[i].pages_estimate >= 1)
           => /\ 0 <= current_page_in_chapter
              /\ current_page_in_chapter
                    < outline[current_chapter_index + 1].pages_estimate

\* C30: a generate_outline() that succeeds leaves writing_progress,
\* chapters_summary and the manuscript as they were, so the book is
\* complete afterwards exactly when the retained chapter index is at least
\* the length of the new outline.
C30_ReoutlineKeepsProgress ==
    [][(last'.op = "generate_outline" /\ last'.status = "ok") =>
          /\ memory'.writing_progress = memory.writing_progress
          /\ memory'.chapters_summary = memory.chapters_summary
          /\ book' = book
          /\ IsBookComplete(memory')
               <=> (memory.writing_progress.current_chapter_index
                        >= Len(memory'.plot_outline))
      ]_vars

====
